---- MODULE Spec2Model ----
(***************************************************************************)
(* Verification model of the e6-public-benchmarks utilities.               *)
(*                                                                         *)
(* The repository is a set of independent scripts.  Each script modelled   *)
(* here has its own group of variables, its own initial predicate and its  *)
(* own specification; the variables of the scripts that are not running    *)
(* stay at their idle values.                                              *)
(*                                                                         *)
(*   SpecBench       athena_benchmark.py / trino_benchmark.py              *)
(*   SpecSync        athena/sync_s3_to_athena.py                           *)
(*   SpecAthena      athena/query_athena_runs.py, compare_runs_athena.py   *)
(*   SpecFind        find_two_latest_runs                                  *)
(*   SpecConsecutive compare_consecutive_runs_from_s3.py                   *)
(*   SpecHttp        test_queries_http.py                                  *)
(*   SpecDiff        calculate_percentage_diff                             *)
(*   SpecMapping     create_query_mapping                                  *)
(*   SpecDbr         get_dbr_query_history.py                              *)
(*   SpecUpload      athena/upload_runs_index_to_athena.py                 *)
(***************************************************************************)
EXTENDS Integers, Sequences, FiniteSets, TLC

(***************************************************************************)
(* Bounds of the model.                                                    *)
(***************************************************************************)
\* greatest number of rows of the input CSV
MaxRows == 3
\* greatest value of CONCURRENT_QUERY_COUNT
MaxThreads == 2

None == "None"

Min(a, b) == IF a < b THEN a ELSE b

SeqToSet(s) == {s[k] : k \in 1..Len(s)}

(***************************************************************************)
(* State.  Each script has its own variables.                              *)
(***************************************************************************)
\* athena_benchmark.py / trino_benchmark.py
VARIABLES
    ENGINE,                 \* "Athena" (athena_benchmark.py) or "Trino" (trino_benchmark.py)
    QUERYING_MODE,          \* "SEQUENTIAL" or "CONCURRENT"
    CONCURRENT_QUERY_COUNT, \* the configured concurrency
    all_rows,               \* len(all_rows): the rows are 1..all_rows, in file order
    bpc,                    \* position of the main process
    j,                      \* number of batches dispatched (the dispatch loop's j)
    pool_pool,              \* the AsyncResults: one sequence of rows per batch
    task,                   \* row -> "pending","queued","running","returned","raised"
    output,                 \* row -> the status dict returned by the query method
    executions,             \* row -> number of cursor.execute calls for the row
    engine_did,             \* row -> what the engine did when the row was served
    cj,                     \* number of AsyncResults whose get() returned
    outs,                   \* outputs of the current get() still to be recorded
    seq_i,                  \* rows served by the sequential loop
    failed_query_count,
    success_query_count,
    failed_query_alias,
    query_results,
    counter

benchVars == <<ENGINE, QUERYING_MODE, CONCURRENT_QUERY_COUNT, all_rows, bpc, j,
               pool_pool, task, output, executions, engine_did, cj, outs,
               seq_i, failed_query_count, success_query_count, failed_query_alias,
               query_results, counter>>

\* utilities/athena/sync_s3_to_athena.py
VARIABLES
    s3_listing,     \* the run_ids that have a statistics.json in S3
    athena_index,   \* the run_ids in jmeter_analysis.jmeter_runs_index
    args_dry_run,   \* --dry-run
    args_force,     \* --force
    args_engine,    \* --engine, or None
    args_cluster,   \* --cluster, or None
    spc,            \* position of main
    s3_runs,        \* main's s3_runs
    athena_runs,    \* main's athena_runs
    missing_runs,   \* main's missing_runs
    would_upload,   \* the runs printed as "Would upload"
    launched,       \* the runs for which the upload subprocess was started
    success,
    failed,
    sync_exit       \* exit status of the process, None while it runs

syncVars == <<s3_listing, athena_index, args_dry_run, args_force, args_engine,
              args_cluster, spc, s3_runs, athena_runs, missing_runs, would_upload,
              launched, success, failed, sync_exit>>

\* utilities/athena/query_athena_runs.py and compare_runs_athena.py
VARIABLES
    aq_script,      \* "query_athena_runs" or "compare_runs_athena"
    aq_index,       \* the run_ids in jmeter_analysis.jmeter_runs_index
    args_run1,      \* --run1
    args_run2,      \* --run2
    apc,            \* position of the script
    attempt,        \* get_query_execution calls made by execute_athena_query
    query_state,    \* the state the last get_query_execution returned
    fetched,        \* get_query_results pages fetched
    results,        \* execute_athena_query's results: the header, then the rows
    column1,        \* compare_runs: the column printed under label1
    column2,        \* compare_runs: the column printed under label2
    aq_exit         \* exit status of the process, None while it runs

athenaVars == <<aq_script, aq_index, args_run1, args_run2, apc, attempt,
                query_state, fetched, results, column1, column2, aq_exit>>

\* utilities/compare_consecutive_runs_from_s3.py: a call of find_two_latest_runs
VARIABLES
    fpc,            \* "call" before the call, "returned" after it
    files,          \* what list_s3_files(s3_path, 'run_id=') returns
    run_id1,        \* the argument run_id1, NoRun for None
    run_id2,        \* the argument run_id2, NoRun for None
    found           \* the tuple returned

findVars == <<fpc, files, run_id1, run_id2, found>>

\* utilities/compare_consecutive_runs_from_s3.py: a run of main
VARIABLES
    cpc,              \* "start", "loop", "exited"
    args_run_id1,     \* --run-id1, NoRun when not given
    args_run_id2,     \* --run-id2, NoRun when not given
    base_path_ok,     \* whether bucket, engine, cluster and benchmark parse from --base-path
    concurrency_runs, \* the number of concurrency levels find_concurrency_runs returns
    level,            \* the concurrency level the loop is at
    listed,           \* per level: what its run listing gave
    previous_stats,   \* per level: what load_statistics_from_s3(previous_file) gave
    latest_stats,     \* per level: what load_statistics_from_s3(latest_file) gave
    comparisons,
    run_id1_actual,
    run_id2_actual,
    report,           \* the rows of the summary table of the markdown report
    consec_exit       \* exit status of the process, meaningful once cpc = "exited"

consecVars == <<cpc, args_run_id1, args_run_id2, base_path_ok, concurrency_runs, level,
                listed, previous_stats, latest_stats, comparisons, run_id1_actual,
                run_id2_actual, report, consec_exit>>

\* utilities/test_queries_http.py: a run of main
VARIABLES
    hpc,            \* "start", "loop", "exited"
    props_ok,       \* whether load_properties reads the connection file
    auth,           \* what the POST to /api/v1/authenticate does
    csv_ok,         \* whether the query CSV can be read
    csv_rows,       \* the QUERY_ALIAS of the rows of the CSV, in file order
    token,          \* what authenticate returned
    queries,        \* the list main loads from the CSV
    sent,           \* the POSTs to /api/v1/execute so far: alias and what came back
    http_results,   \* results
    results_saved,  \* whether test_results_<timestamp>.json was written
    http_exit       \* exit status of the process, meaningful once hpc = "exited"

httpVars == <<hpc, props_ok, auth, csv_ok, csv_rows, token, queries, sent, http_results,
              results_saved, http_exit>>

\* utilities/jmeter_s3_utils.py: a call of calculate_percentage_diff
VARIABLES
    dpc,            \* "call" before the call, "returned" after it
    val1,
    val2,
    diff            \* the value returned, as a fraction

diffVars == <<dpc, val1, val2, diff>>

\* utilities/jmeter_s3_utils.py: a call of create_query_mapping
VARIABLES
    mpc,            \* "call" before the call, "returned" after it
    stats1,         \* the keys of the first statistics dictionary
    stats2,         \* the keys of the second statistics dictionary
    engine1,
    engine2,
    mapping         \* the dictionary returned

mappingVars == <<mpc, stats1, stats2, engine1, engine2, mapping>>

\* utilities/get_dbr_query_history.py: a run of main
VARIABLES
    qpc,              \* "start", "range", "fetch", "exited"
    conn_ok,          \* whether host, warehouse id and token are found
    args_test_result, \* --test-result: "absent", or a file that "parses" or is "unparseable"
    args_start_time,  \* --start-time: "absent", "valid" or "invalid" for the format
    args_end_time,    \* --end-time: "absent", "valid" or "invalid" for the format
    args_hours,       \* --hours, NoHours when not given
    start_time,
    end_time,
    hours,
    time_range,       \* the time range of the request sent
    requests_sent,    \* number of GETs to /api/2.0/sql/history/queries
    exported,         \* whether the CSV was written
    dbr_exit          \* exit status of the process, meaningful once qpc = "exited"

dbrVars == <<qpc, conn_ok, args_test_result, args_start_time, args_end_time, args_hours,
             start_time, end_time, hours, time_range, requests_sent, exported, dbr_exit>>

\* utilities/athena/upload_runs_index_to_athena.py: a run of main
VARIABLES
    upc,            \* "start", "upload_to_s3", "cp", "returned", "exited"
    upl_mode,       \* "from_s3", "index_file", or "none" when neither is given
    upl_dry_run,    \* --dry-run
    index_found,    \* the index file exists / generate_runs_index returns an index
    index_runs,     \* the runs of the index
    temp_files,     \* the temporary files that exist
    temp_created,   \* the temporary files created so far
    cp_runs,        \* number of 'aws s3 cp' subprocesses run
    s3_data,        \* the runs of data.jsonl in S3
    upload_exit     \* exit status of the process, meaningful once upc = "exited"

uploadVars == <<upc, upl_mode, upl_dry_run, index_found, index_runs, temp_files,
                temp_created, cp_runs, s3_data, upload_exit>>

\* the variables a script leaves alone: those of the other scripts
notBench == <<syncVars, athenaVars, findVars, consecVars, httpVars, diffVars, mappingVars, dbrVars, uploadVars>>

notSync == <<benchVars, athenaVars, findVars, consecVars, httpVars, diffVars, mappingVars, dbrVars, uploadVars>>

notAthena == <<benchVars, syncVars, findVars, consecVars, httpVars, diffVars, mappingVars, dbrVars, uploadVars>>

notFind == <<benchVars, syncVars, athenaVars, consecVars, httpVars, diffVars, mappingVars, dbrVars, uploadVars>>

notConsec == <<benchVars, syncVars, athenaVars, findVars, httpVars, diffVars, mappingVars, dbrVars, uploadVars>>

notHttp == <<benchVars, syncVars, athenaVars, findVars, consecVars, diffVars, mappingVars, dbrVars, uploadVars>>

notDiff == <<benchVars, syncVars, athenaVars, findVars, consecVars, httpVars, mappingVars, dbrVars, uploadVars>>

notMapping == <<benchVars, syncVars, athenaVars, findVars, consecVars, httpVars, diffVars, dbrVars, uploadVars>>

notDbr == <<benchVars, syncVars, athenaVars, findVars, consecVars, httpVars, diffVars, mappingVars, uploadVars>>

notUpload == <<benchVars, syncVars, athenaVars, findVars, consecVars, httpVars, diffVars, mappingVars, dbrVars>>

(***************************************************************************)
(* athena_benchmark.py / trino_benchmark.py                                *)
(***************************************************************************)
Engines == {"Athena", "Trino"}
Modes == {"SEQUENTIAL", "CONCURRENT"}

\* What the engine does with one row: the connection cannot be opened, the
\* query (execute / fetchall / reading the statistics) raises, or it succeeds.
Errors == {"timeout", "syntax error"}
RowCounts == {0, 1}
Outcomes ==
    {[kind |-> "connect_raises", err |-> None, rows |-> 0]}
    \cup {[kind |-> "query_raises", err |-> e, rows |-> 0] : e \in Errors}
    \cup {[kind |-> "ok", err |-> None, rows |-> n] : n \in RowCounts}

NoStatus == [query_id |-> None, row_count |-> 0, execution_time |-> 0,
             query_status |-> None, err_msg |-> None]

\* the except branch shared by query_on_athena and query_on_6ex
FailureRecord(e) ==
    [query_id |-> None, row_count |-> 0, execution_time |-> 0,
     query_status |-> "Failure",
     err_msg |-> IF e = "timeout" THEN "Connect timeout. Unable to connect." ELSE e]

SuccessRecord(n) ==
    [query_id |-> "query_id", row_count |-> n, execution_time |-> 1,
     query_status |-> "Success", err_msg |-> None]

\* a query_on_* that reports a raised query as a success
query_on_swallow(o) == SuccessRecord(o.rows)

query_on_athena(o) ==
    IF o.kind = "query_raises" THEN FailureRecord(o.err) ELSE SuccessRecord(o.rows)

query_on_6ex(o) ==
    IF o.kind = "query_raises" THEN FailureRecord(o.err) ELSE SuccessRecord(o.rows)

\* create_athena_con / create_e6x_con: the connection, or None when connect raises
create_athena_con(o) == IF o.kind = "connect_raises" THEN None ELSE "connection"

create_e6x_con(o) == IF o.kind = "connect_raises" THEN None ELSE "connection"

\* athena_query_method / e6x_query_method on a row whose engine behaviour is o:
\* local_connection.cursor() raises AttributeError on None, otherwise the
\* query is executed once and its status returned.
athena_query_method(o) ==
    IF create_athena_con(o) = None
    THEN [raised |-> TRUE, executed |-> 0, status |-> NoStatus]
    ELSE [raised |-> FALSE, executed |-> 1, status |-> query_on_athena(o)]

e6x_query_method(o) ==
    IF create_e6x_con(o) = None
    THEN [raised |-> TRUE, executed |-> 0, status |-> NoStatus]
    ELSE [raised |-> FALSE, executed |-> 1, status |-> query_on_6ex(o)]

query_method(eng, o) ==
    IF eng = "Athena" THEN athena_query_method(o) ELSE e6x_query_method(o)

\* a pool as large as the input
SizeAllRows(eng, threads, n) == n

\* size: the processes of each Pool and the length of each slice of all_rows
Size(eng, threads, n) == IF eng = "Trino" THEN Min(threads, n) ELSE threads

\* concurrent_looper / concur_looper: the number of batches
Looper(eng, threads, n) ==
    IF eng = "Athena"
    THEN (n \div threads) + 1
    ELSE IF (n \div threads) * threads # n THEN (n \div threads) + 1 ELSE n \div threads

\* all_rows[size * jj : size * (jj + 1)]
Slice(n, size, jj) ==
    LET lo == Min(size * jj, n)
        hi == Min(size * (jj + 1), n)
    IN  [k \in 1..(hi - lo) |-> lo + k]

size == Size(ENGINE, CONCURRENT_QUERY_COUNT, all_rows)

RunningIn(batch) == {r \in SeqToSet(batch) : task[r] = "running"}

Running == {r \in 1..all_rows : task[r] = "running"}

ResultRow(r, status, s_no) ==
    [query_alias_name |-> r, s_no |-> s_no, query_id |-> status.query_id,
     row_count |-> status.row_count, execution_time |-> status.execution_time,
     query_status |-> status.query_status, err_msg |-> status.err_msg]

BenchInit ==
    /\ ENGINE \in Engines
    /\ QUERYING_MODE \in Modes
    /\ CONCURRENT_QUERY_COUNT \in 1..MaxThreads
    /\ all_rows \in 0..MaxRows
    /\ bpc = IF QUERYING_MODE = "CONCURRENT" THEN "dispatch" ELSE "sequential"
    /\ j = 0
    /\ pool_pool = <<>>
    /\ task = [r \in 1..all_rows |-> "pending"]
    /\ output = [r \in 1..all_rows |-> NoStatus]
    /\ executions = [r \in 1..all_rows |-> 0]
    /\ engine_did = [r \in 1..all_rows |-> None]
    /\ cj = 0
    /\ outs = <<>>
    /\ seq_i = 0
    /\ failed_query_count = 0
    /\ success_query_count = 0
    /\ failed_query_alias = <<>>
    /\ query_results = <<>>
    /\ counter = 0

BenchIdle ==
    /\ ENGINE = None
    /\ QUERYING_MODE = None
    /\ CONCURRENT_QUERY_COUNT = 0
    /\ all_rows = 0
    /\ bpc = "idle"
    /\ j = 0
    /\ pool_pool = <<>>
    /\ task = <<>>
    /\ output = <<>>
    /\ executions = <<>>
    /\ engine_did = <<>>
    /\ cj = 0
    /\ outs = <<>>
    /\ seq_i = 0
    /\ failed_query_count = 0
    /\ success_query_count = 0
    /\ failed_query_alias = <<>>
    /\ query_results = <<>>
    /\ counter = 0

\* for j in range(looper): Pool(processes=size); map_async(...); sleep(time_wait)
Dispatch ==
    /\ bpc = "dispatch"
    /\ j < Looper(ENGINE, CONCURRENT_QUERY_COUNT, all_rows)
    /\ LET batch == Slice(all_rows, size, j)
       IN  /\ pool_pool' = Append(pool_pool, batch)
           /\ task' = [r \in 1..all_rows |->
                         IF r \in SeqToSet(batch) THEN "queued" ELSE task[r]]
    /\ j' = j + 1
    /\ UNCHANGED <<ENGINE, QUERYING_MODE, CONCURRENT_QUERY_COUNT, all_rows, bpc,
                   output, executions, engine_did, cj, outs, seq_i, failed_query_count,
                   success_query_count, failed_query_alias, query_results, counter>>
    /\ UNCHANGED notBench

\* the dispatch loop is over: the main process starts reading the results
DispatchDone ==
    /\ bpc = "dispatch"
    /\ j = Looper(ENGINE, CONCURRENT_QUERY_COUNT, all_rows)
    /\ bpc' = "collect"
    /\ UNCHANGED <<ENGINE, QUERYING_MODE, CONCURRENT_QUERY_COUNT, all_rows, j,
                   pool_pool, task, output, executions, engine_did, cj, outs, seq_i,
                   failed_query_count, success_query_count, failed_query_alias,
                   query_results, counter>>
    /\ UNCHANGED notBench

MainAlive == bpc \in {"dispatch", "collect"}

\* a process of the batch's pool takes the row's task
WorkerStart(r) ==
    /\ MainAlive
    /\ task[r] = "queued"
    /\ \E b \in 1..Len(pool_pool) :
          /\ r \in SeqToSet(pool_pool[b])
          /\ Cardinality(RunningIn(pool_pool[b])) < size
    /\ task' = [task EXCEPT ![r] = "running"]
    /\ UNCHANGED <<ENGINE, QUERYING_MODE, CONCURRENT_QUERY_COUNT, all_rows, bpc, j,
                   pool_pool, output, executions, engine_did, cj, outs, seq_i,
                   failed_query_count, success_query_count, failed_query_alias,
                   query_results, counter>>
    /\ UNCHANGED notBench

\* the worker's call of athena_query_method / e6x_query_method returns or raises
WorkerFinish(r) ==
    /\ MainAlive
    /\ task[r] = "running"
    /\ \E o \in Outcomes :
          LET res == query_method(ENGINE, o)
          IN  /\ task' = [task EXCEPT ![r] = IF res.raised THEN "raised" ELSE "returned"]
              /\ output' = [output EXCEPT ![r] = res.status]
              /\ executions' = [executions EXCEPT ![r] = @ + res.executed]
              /\ engine_did' = [engine_did EXCEPT ![r] = o.kind]
    /\ UNCHANGED <<ENGINE, QUERYING_MODE, CONCURRENT_QUERY_COUNT, all_rows, bpc, j,
                   pool_pool, cj, outs, seq_i, failed_query_count,
                   success_query_count, failed_query_alias, query_results, counter>>
    /\ UNCHANGED notBench

\* j.get(): waits for the whole batch; re-raises what a task raised
CollectGet ==
    /\ bpc = "collect"
    /\ outs = <<>>
    /\ cj < Len(pool_pool)
    /\ LET batch == pool_pool[cj + 1]
       IN  /\ \A r \in SeqToSet(batch) : task[r] \in {"returned", "raised"}
           /\ IF \E r \in SeqToSet(batch) : task[r] = "raised"
              THEN /\ bpc' = "crashed"
                   /\ UNCHANGED <<cj, outs>>
              ELSE /\ cj' = cj + 1
                   /\ outs' = batch
                   /\ bpc' = bpc
    /\ UNCHANGED <<ENGINE, QUERYING_MODE, CONCURRENT_QUERY_COUNT, all_rows, j,
                   pool_pool, task, output, executions, engine_did, seq_i, failed_query_count,
                   success_query_count, failed_query_alias, query_results, counter>>
    /\ UNCHANGED notBench

\* the body of "for output in j.get()"
CollectOutput ==
    /\ bpc = "collect"
    /\ outs # <<>>
    /\ LET r == Head(outs)
           status == output[r]
       IN  /\ IF status.query_status = "Failure"
              THEN /\ failed_query_count' = failed_query_count + 1
                   /\ failed_query_alias' = Append(failed_query_alias, r)
                   /\ UNCHANGED success_query_count
              ELSE /\ success_query_count' = success_query_count + 1
                   /\ UNCHANGED <<failed_query_count, failed_query_alias>>
           /\ query_results' = Append(query_results, ResultRow(r, status, counter + 1))
    /\ counter' = counter + 1
    /\ outs' = Tail(outs)
    /\ UNCHANGED <<ENGINE, QUERYING_MODE, CONCURRENT_QUERY_COUNT, all_rows, bpc, j,
                   pool_pool, task, output, executions, engine_did, cj, seq_i>>
    /\ UNCHANGED notBench

CollectDone ==
    /\ bpc = "collect"
    /\ outs = <<>>
    /\ cj = Len(pool_pool)
    /\ bpc' = "finish"
    /\ UNCHANGED <<ENGINE, QUERYING_MODE, CONCURRENT_QUERY_COUNT, all_rows, j,
                   pool_pool, task, output, executions, engine_did, cj, outs, seq_i,
                   failed_query_count, success_query_count, failed_query_alias,
                   query_results, counter>>
    /\ UNCHANGED notBench

\* AthenaBenchmark: one turn of "for row in all_rows" of the sequential branch
AthenaSequentialRow ==
    /\ bpc = "sequential"
    /\ ENGINE = "Athena"
    /\ seq_i < all_rows
    /\ \E o \in Outcomes :
          LET r == seq_i + 1
              res == athena_query_method(o)
              status == res.status
          IN  /\ executions' = [executions EXCEPT ![r] = @ + res.executed]
              /\ engine_did' = [engine_did EXCEPT ![r] = o.kind]
              /\ IF res.raised
                 THEN /\ bpc' = "crashed"
                      /\ UNCHANGED <<output, task, seq_i, failed_query_count,
                                     success_query_count, failed_query_alias,
                                     query_results, counter>>
                 ELSE /\ bpc' = bpc
                      /\ output' = [output EXCEPT ![r] = status]
                      /\ task' = [task EXCEPT ![r] = "returned"]
                      /\ seq_i' = seq_i + 1
                      /\ IF status.query_status = "Failure"
                         THEN /\ failed_query_count' = failed_query_count + 1
                              /\ failed_query_alias' = Append(failed_query_alias, r)
                              /\ UNCHANGED success_query_count
                         ELSE /\ success_query_count' = success_query_count + 1
                              /\ UNCHANGED <<failed_query_count, failed_query_alias>>
                      /\ query_results' =
                            query_results
                            \o <<ResultRow(r, status, 0),
                                 ResultRow(r, [status EXCEPT !.err_msg = None], counter + 1)>>
                      /\ counter' = counter + 1
    /\ UNCHANGED <<ENGINE, QUERYING_MODE, CONCURRENT_QUERY_COUNT, all_rows, j,
                   pool_pool, cj, outs>>
    /\ UNCHANGED notBench

\* E6XBenchmark: one turn of "for row in all_rows" of the sequential branch
E6XSequentialRow ==
    /\ bpc = "sequential"
    /\ ENGINE = "Trino"
    /\ seq_i < all_rows
    /\ \E o \in Outcomes :
          LET r == seq_i + 1
              res == e6x_query_method(o)
              status == res.status
          IN  /\ executions' = [executions EXCEPT ![r] = @ + res.executed]
              /\ engine_did' = [engine_did EXCEPT ![r] = o.kind]
              /\ IF res.raised
                 THEN /\ bpc' = "crashed"
                      /\ UNCHANGED <<output, task, seq_i, query_results>>
                 ELSE /\ bpc' = bpc
                      /\ output' = [output EXCEPT ![r] = status]
                      /\ task' = [task EXCEPT ![r] = "returned"]
                      /\ seq_i' = seq_i + 1
                      /\ query_results' = Append(query_results, ResultRow(r, status, 0))
    /\ UNCHANGED <<ENGINE, QUERYING_MODE, CONCURRENT_QUERY_COUNT, all_rows, j,
                   pool_pool, cj, outs, failed_query_count, success_query_count,
                   failed_query_alias, counter>>
    /\ UNCHANGED notBench

SequentialDone ==
    /\ bpc = "sequential"
    /\ seq_i = all_rows
    /\ bpc' = "finish"
    /\ UNCHANGED <<ENGINE, QUERYING_MODE, CONCURRENT_QUERY_COUNT, all_rows, j,
                   pool_pool, task, output, executions, engine_did, cj, outs, seq_i,
                   failed_query_count, success_query_count, failed_query_alias,
                   query_results, counter>>
    /\ UNCHANGED notBench

\* is_any_query_failed = failed_query_count > 0
is_any_query_failed == failed_query_count > 0

\* the end of __init__: summary, report, then raise QueryException or return
Finish ==
    /\ bpc = "finish"
    /\ bpc' = IF is_any_query_failed THEN "QueryException" ELSE "done"
    /\ UNCHANGED <<ENGINE, QUERYING_MODE, CONCURRENT_QUERY_COUNT, all_rows, j,
                   pool_pool, task, output, executions, engine_did, cj, outs, seq_i,
                   failed_query_count, success_query_count, failed_query_alias,
                   query_results, counter>>
    /\ UNCHANGED notBench

BenchNext ==
    \/ Dispatch
    \/ DispatchDone
    \/ \E r \in 1..all_rows : WorkerStart(r)
    \/ \E r \in 1..all_rows : WorkerFinish(r)
    \/ CollectGet
    \/ CollectOutput
    \/ CollectDone
    \/ AthenaSequentialRow
    \/ E6XSequentialRow
    \/ SequentialDone
    \/ Finish

(***************************************************************************)
(* utilities/athena/sync_s3_to_athena.py                                   *)
(***************************************************************************)
\* greatest run_id; the run_ids are 1..MaxRunId
MaxRunId == 3

RunIds == 1..MaxRunId

\* the partition values of the path a run_id was found under
EngineOf(r) == IF r % 2 = 1 THEN "e6data" ELSE "databricks"

ClusterOf(r) == IF r <= 2 THEN "S-2x2" ELSE "M-4x4"

\* a set of run_ids as the list S3 returns it (keys in ascending order)
RECURSIVE Sorted(_)
Sorted(S) ==
    IF S = {} THEN <<>>
    ELSE LET m == CHOOSE x \in S : \A y \in S : x <= y
         IN  <<m>> \o Sorted(S \ {m})

\* [r for r in runs if keep(r)]
RECURSIVE Filter(_, _)
Filter(runs, keep) ==
    IF runs = <<>> THEN <<>>
    ELSE (IF Head(runs) \in keep THEN <<Head(runs)>> ELSE <<>>) \o Filter(Tail(runs), keep)

\* get_s3_runs followed by the --engine and --cluster filters
FilteredS3Runs ==
    LET all == Sorted(s3_listing)
        byEngine == IF args_engine = None THEN all
                    ELSE Filter(all, {r \in RunIds : EngineOf(r) = args_engine})
    IN  IF args_cluster = None THEN byEngine
        ELSE Filter(byEngine, {r \in RunIds : ClusterOf(r) = args_cluster})

AthenaStates == {"RUNNING", "SUCCEEDED", "FAILED", "CANCELLED"}

\* get_athena_runs once the query left the polling loop in the given state
get_athena_runs(state) == IF state = "SUCCEEDED" THEN athena_index ELSE {}

\* Step 3 of main: the runs to upload
MissingRuns(force, runs, inAthena) ==
    IF force THEN runs ELSE Filter(runs, RunIds \ inAthena)

SyncInit ==
    /\ s3_listing \in SUBSET RunIds
    /\ athena_index \in SUBSET RunIds
    /\ args_dry_run \in BOOLEAN
    /\ args_force \in BOOLEAN
    /\ args_engine \in {None, "e6data"}
    /\ args_cluster \in {None, "S-2x2"}
    /\ spc = "scan"
    /\ s3_runs = <<>>
    /\ athena_runs = {}
    /\ missing_runs = <<>>
    /\ would_upload = <<>>
    /\ launched = <<>>
    /\ success = 0
    /\ failed = 0
    /\ sync_exit = None

SyncIdle ==
    /\ s3_listing = {}
    /\ athena_index = {}
    /\ args_dry_run = FALSE
    /\ args_force = FALSE
    /\ args_engine = None
    /\ args_cluster = None
    /\ spc = "idle"
    /\ s3_runs = <<>>
    /\ athena_runs = {}
    /\ missing_runs = <<>>
    /\ would_upload = <<>>
    /\ launched = <<>>
    /\ success = 0
    /\ failed = 0
    /\ sync_exit = None

\* Step 1 of main: discover the runs in S3 and apply the filters
SyncScan ==
    /\ spc = "scan"
    /\ s3_runs' = FilteredS3Runs
    /\ IF FilteredS3Runs = <<>>
       THEN spc' = "exited" /\ sync_exit' = 1
       ELSE spc' = "lookup" /\ sync_exit' = sync_exit
    /\ UNCHANGED <<s3_listing, athena_index, args_dry_run, args_force, args_engine,
                   args_cluster, athena_runs, missing_runs, would_upload, launched,
                   success, failed>>
    /\ UNCHANGED notSync

\* Step 2 of main: one turn of the polling loop of get_athena_runs
SyncPoll ==
    /\ spc = "lookup"
    /\ \E state \in AthenaStates :
          IF state = "RUNNING"
          THEN UNCHANGED <<spc, athena_runs>>
          ELSE /\ athena_runs' = get_athena_runs(state)
               /\ spc' = "decide"
    /\ UNCHANGED <<s3_listing, athena_index, args_dry_run, args_force, args_engine,
                   args_cluster, s3_runs, missing_runs, would_upload, launched,
                   success, failed, sync_exit>>
    /\ UNCHANGED notSync

\* Step 3 of main, the summary and, when dry is set, the dry-run listing
Decide(dry) ==
    /\ spc = "decide"
    /\ LET missing == MissingRuns(args_force, s3_runs, athena_runs)
       IN  /\ missing_runs' = missing
           /\ IF missing = <<>>
              THEN /\ spc' = "exited"
                   /\ sync_exit' = 0
                   /\ UNCHANGED would_upload
              ELSE IF dry
              THEN /\ would_upload' = missing
                   /\ spc' = "exited"
                   /\ sync_exit' = 0
              ELSE /\ spc' = "upload"
                   /\ UNCHANGED <<would_upload, sync_exit>>
    /\ UNCHANGED <<s3_listing, athena_index, args_dry_run, args_force, args_engine,
                   args_cluster, s3_runs, athena_runs, launched, success, failed>>
    /\ UNCHANGED notSync

\* a main that has lost its "if args.dry_run:" block
SyncDecideWithoutDryRun == Decide(FALSE)

SyncDecide == Decide(args_dry_run)

\* the results of the subprocess started by upload_run_to_athena
UploadResults == {"returncode 0", "returncode 1", "TimeoutExpired", "Exception"}

\* Step 4 of main: one turn of the upload loop, upload_run_to_athena(s3_path)
SyncUpload ==
    /\ spc = "upload"
    /\ Len(launched) < Len(missing_runs)
    /\ launched' = Append(launched, missing_runs[Len(launched) + 1])
    /\ \E res \in UploadResults :
          IF res = "returncode 0"
          THEN success' = success + 1 /\ failed' = failed
          ELSE failed' = failed + 1 /\ success' = success
    /\ UNCHANGED <<s3_listing, athena_index, args_dry_run, args_force, args_engine,
                   args_cluster, spc, s3_runs, athena_runs, missing_runs,
                   would_upload, sync_exit>>
    /\ UNCHANGED notSync

\* the summary; main returns
SyncDone ==
    /\ spc = "upload"
    /\ Len(launched) = Len(missing_runs)
    /\ spc' = "exited"
    /\ sync_exit' = 0
    /\ UNCHANGED <<s3_listing, athena_index, args_dry_run, args_force, args_engine,
                   args_cluster, s3_runs, athena_runs, missing_runs, would_upload,
                   launched, success, failed>>
    /\ UNCHANGED notSync

SyncNext ==
    \/ SyncScan
    \/ SyncPoll
    \/ SyncDecide
    \/ SyncUpload
    \/ SyncDone

(***************************************************************************)
(* utilities/athena/query_athena_runs.py and compare_runs_athena.py        *)
(***************************************************************************)
\* max_attempts of execute_athena_query
max_attempts == 30

AthenaScripts == {"query_athena_runs", "compare_runs_athena"}

\* the header row of a result set
Header == 0

\* the ROUND(avg_latency_sec, 2) stored in the index for a run
MetricOf(r) == 10 * r

NoColumn == [label |-> None, run_id |-> 0, avg_latency_sec |-> 0]

\* the rows Athena returns for the script's query, header first:
\* get_runs_by_ids selects WHERE run_id IN (run1, run2) ORDER BY run_id
QueryRows ==
    IF aq_script = "compare_runs_athena"
    THEN <<Header>> \o Sorted(aq_index \cap {args_run1, args_run2})
    ELSE <<Header>> \o Sorted(aq_index)

\* an execute_athena_query that polls until the query leaves RUNNING
AfterPollForever(state, n) ==
    IF state = "SUCCEEDED" THEN "fetch"
    ELSE IF state \in {"FAILED", "CANCELLED"} THEN "exit 1"
    ELSE "poll"

\* where execute_athena_query goes after its n-th poll returned state
AfterPoll(state, n) ==
    IF state = "SUCCEEDED" THEN "fetch"
    ELSE IF state \in {"FAILED", "CANCELLED"} THEN "exit 1"
    ELSE IF n = max_attempts THEN "exit 1"
    ELSE "poll"

AthenaInit ==
    /\ aq_script \in AthenaScripts
    /\ aq_index \in SUBSET RunIds
    /\ IF aq_script = "compare_runs_athena"
       THEN args_run1 \in RunIds /\ args_run2 \in RunIds
       ELSE args_run1 = None /\ args_run2 = None
    /\ apc = "poll"
    /\ attempt = 0
    /\ query_state = None
    /\ fetched = 0
    /\ results = <<>>
    /\ column1 = NoColumn
    /\ column2 = NoColumn
    /\ aq_exit = None

AthenaIdle ==
    /\ aq_script = None
    /\ aq_index = {}
    /\ args_run1 = None
    /\ args_run2 = None
    /\ apc = "idle"
    /\ attempt = 0
    /\ query_state = None
    /\ fetched = 0
    /\ results = <<>>
    /\ column1 = NoColumn
    /\ column2 = NoColumn
    /\ aq_exit = None

\* execute_athena_query: one turn of the polling loop, with its exits
AthenaPoll ==
    /\ apc = "poll"
    /\ \E state \in AthenaStates :
          LET next == AfterPoll(state, attempt + 1)
          IN  /\ query_state' = state
              /\ attempt' = attempt + 1
              /\ IF next = "exit 1"
                 THEN apc' = "exited" /\ aq_exit' = 1
                 ELSE apc' = next /\ aq_exit' = aq_exit
    /\ UNCHANGED <<aq_script, aq_index, args_run1, args_run2, fetched, results,
                   column1, column2>>
    /\ UNCHANGED notAthena

\* execute_athena_query: one page of paginator.paginate(...)
AthenaFetchPage ==
    /\ apc = "fetch"
    /\ \E k \in 1..(Len(QueryRows) - Len(results)) :
          /\ results' = results \o SubSeq(QueryRows, Len(results) + 1, Len(results) + k)
          /\ apc' = IF Len(results) + k = Len(QueryRows) THEN "returned" ELSE "fetch"
    /\ fetched' = fetched + 1
    /\ UNCHANGED <<aq_script, aq_index, args_run1, args_run2, attempt, query_state,
                   column1, column2, aq_exit>>
    /\ UNCHANGED notAthena

\* query_athena_runs: the results are printed and main returns
QueryRunsPrint ==
    /\ apc = "returned"
    /\ aq_script = "query_athena_runs"
    /\ apc' = "exited"
    /\ aq_exit' = 0
    /\ UNCHANGED <<aq_script, aq_index, args_run1, args_run2, attempt, query_state,
                   fetched, results, column1, column2>>
    /\ UNCHANGED notAthena

\* get_runs_by_ids: (run1_data, run2_data), or None when a run is missing
get_runs_by_ids(rows) ==
    IF Len(rows) < 3 THEN None ELSE <<rows[2], rows[3]>>

\* compare_runs_athena main with --run1 and --run2: get_runs_by_ids, then
\* compare_runs(run1, run2, "Run 1 (<run1>)", "Run 2 (<run2>)")
CompareRuns ==
    /\ apc = "returned"
    /\ aq_script = "compare_runs_athena"
    /\ LET data == get_runs_by_ids(results)
       IN  IF data = None
           THEN /\ aq_exit' = 1
                /\ UNCHANGED <<column1, column2>>
           ELSE /\ column1' = [label |-> args_run1, run_id |-> data[1],
                               avg_latency_sec |-> MetricOf(data[1])]
                /\ column2' = [label |-> args_run2, run_id |-> data[2],
                               avg_latency_sec |-> MetricOf(data[2])]
                /\ aq_exit' = 0
    /\ apc' = "exited"
    /\ UNCHANGED <<aq_script, aq_index, args_run1, args_run2, attempt, query_state,
                   fetched, results>>
    /\ UNCHANGED notAthena

AthenaNext ==
    \/ AthenaPoll
    \/ AthenaFetchPage
    \/ QueryRunsPrint
    \/ CompareRuns

(***************************************************************************)
(* utilities/compare_consecutive_runs_from_s3.py: find_two_latest_runs     *)
(***************************************************************************)
\* greatest number of keys in a listing
MaxFiles == 3

\* None where a run_id or a statistics file is expected (the run_ids are 1..MaxRunId)
NoRun == 0

\* a listed key that contains 'run_id=' but no run_id=YYYYMMDD-HHMMSS/ folder
InvalidKey == 0

\* the keys list_s3_files can return: each under the folder of a run_id, or invalid;
\* the empty listing is also what a failed 'aws s3 ls' gives
Listings == UNION {[1..n -> RunIds \cup {InvalidKey}] : n \in 0..MaxFiles}

\* (None, None, None, None)
NotFound ==
    [previous_file |-> NoRun, latest_file |-> NoRun,
     previous_run_id |-> NoRun, latest_run_id |-> NoRun]

\* the S3 URI of the statistics.json of a run, named by its run_id
StatisticsFile(r) == r

\* sorted(run_ids, reverse=True)
RECURSIVE SortedDesc(_)
SortedDesc(S) ==
    IF S = {} THEN <<>>
    ELSE LET m == CHOOSE x \in S : \A y \in S : x >= y
         IN  <<m>> \o SortedDesc(S \ {m})

\* the run_ids matched by r'run_id=(\d{8}-\d{6})/' in the listed keys
ValidRunIds(listing) == {listing[k] : k \in 1..Len(listing)} \ {InvalidKey}

\* the body of find_two_latest_runs, given the list of run_ids it sorted
TwoRuns(listing, run_ids, id1, id2) ==
    IF listing = <<>> THEN NotFound
    ELSE IF run_ids = <<>> THEN NotFound
    ELSE IF id1 # NoRun /\ id2 # NoRun
    THEN IF id1 \notin SeqToSet(run_ids) THEN NotFound
         ELSE IF id2 \notin SeqToSet(run_ids) THEN NotFound
         ELSE [previous_file |-> StatisticsFile(id1), latest_file |-> StatisticsFile(id2),
               previous_run_id |-> id1, latest_run_id |-> id2]
    ELSE IF Len(run_ids) < 2 THEN NotFound
    ELSE [previous_file |-> StatisticsFile(run_ids[2]),
          latest_file |-> StatisticsFile(run_ids[1]),
          previous_run_id |-> run_ids[2], latest_run_id |-> run_ids[1]]

\* a find_two_latest_runs that sorts the run_ids oldest first
find_two_oldest_runs(listing, id1, id2) ==
    TwoRuns(listing, Sorted(ValidRunIds(listing)), id1, id2)

find_two_latest_runs(listing, id1, id2) ==
    TwoRuns(listing, SortedDesc(ValidRunIds(listing)), id1, id2)

FindInit ==
    /\ fpc = "call"
    /\ files \in Listings
    /\ run_id1 \in RunIds \cup {NoRun}
    /\ run_id2 \in RunIds \cup {NoRun}
    /\ found = NotFound

FindIdle ==
    /\ fpc = "idle"
    /\ files = <<>>
    /\ run_id1 = NoRun
    /\ run_id2 = NoRun
    /\ found = NotFound

FindCall ==
    /\ fpc = "call"
    /\ found' = find_two_latest_runs(files, run_id1, run_id2)
    /\ fpc' = "returned"
    /\ UNCHANGED <<files, run_id1, run_id2>>
    /\ UNCHANGED notFind

FindNext == FindCall

(***************************************************************************)
(* utilities/compare_consecutive_runs_from_s3.py: main                     *)
(***************************************************************************)
\* greatest number of concurrency levels under --base-path
MaxLevels == 2

\* no 'Total' entry in a statistics.json
NoTotal == 0

\* meanResTime of 'Total', in milliseconds
MeanResTimes == {100, 103}

\* load_statistics_from_s3 returns None (the download or the JSON parse failed)
NoStatistics == [loaded |-> FALSE, Total |-> NoTotal]

\* what load_statistics_from_s3 can return: None, or the statistics, with or
\* without a 'Total' entry
Statistics ==
    {NoStatistics} \cup {[loaded |-> TRUE, Total |-> t] : t \in MeanResTimes \cup {NoTotal}}

\* extract_query_metrics(stats, 'Total'): the average, NoTotal for None;
\* kept in milliseconds (the code divides by 1000.0)
extract_query_metrics(stats) == stats.Total

\* calculate_change: the percentage as the fraction <<numerator, denominator>>
calculate_change(previous, latest) ==
    IF previous = 0 THEN [percent |-> <<0, 1>>, trend |-> "stable"]
    ELSE LET pct == <<(latest - previous) * 100, previous>>
         IN  [percent |-> pct,
              trend |-> IF pct[1] < (0 - 2) * pct[2] THEN "improvement"
                        ELSE IF pct[1] > 2 * pct[2] THEN "degradation"
                        ELSE "stable"]

\* compare_runs: without 'Total' metrics the result has no 'avg'
compare_runs(p, l, concurrency) ==
    LET prev_metrics == extract_query_metrics(p)
        latest_metrics == extract_query_metrics(l)
    IN  IF prev_metrics = NoTotal \/ latest_metrics = NoTotal
        THEN [concurrency |-> concurrency, has_avg |-> FALSE,
              previous |-> NoTotal, latest |-> NoTotal,
              changes |-> calculate_change(NoTotal, NoTotal)]
        ELSE [concurrency |-> concurrency, has_avg |-> TRUE,
              previous |-> prev_metrics, latest |-> latest_metrics,
              changes |-> calculate_change(prev_metrics, latest_metrics)]

\* the summary table of generate_markdown_report
generate_markdown_report(comps) ==
    [k \in 1..Len(comps) |->
        <<comps[k].concurrency, comps[k].previous, comps[k].latest,
          comps[k].changes.trend>>]

\* line 565: if not previous_stats or not latest_stats
LoadFailed(p, l) == ~p.loaded \/ ~l.loaded

ConsecInit ==
    /\ cpc = "start"
    /\ args_run_id1 \in RunIds \cup {NoRun}
    /\ args_run_id2 \in RunIds \cup {NoRun}
    /\ base_path_ok \in BOOLEAN
    /\ concurrency_runs \in 0..MaxLevels
    /\ level = 0
    /\ listed = [c \in 1..concurrency_runs |-> "pending"]
    /\ previous_stats = [c \in 1..concurrency_runs |-> NoStatistics]
    /\ latest_stats = [c \in 1..concurrency_runs |-> NoStatistics]
    /\ comparisons = <<>>
    /\ run_id1_actual = NoRun
    /\ run_id2_actual = NoRun
    /\ report = <<>>
    /\ consec_exit = 0

ConsecIdle ==
    /\ cpc = "idle"
    /\ args_run_id1 = NoRun
    /\ args_run_id2 = NoRun
    /\ base_path_ok = FALSE
    /\ concurrency_runs = 0
    /\ level = 0
    /\ listed = <<>>
    /\ previous_stats = <<>>
    /\ latest_stats = <<>>
    /\ comparisons = <<>>
    /\ run_id1_actual = NoRun
    /\ run_id2_actual = NoRun
    /\ report = <<>>
    /\ consec_exit = 0

\* main up to the loop: the arguments, the base path, the concurrency levels
ConsecStart ==
    /\ cpc = "start"
    /\ IF \/ (args_run_id1 # NoRun /\ args_run_id2 = NoRun)
          \/ (args_run_id2 # NoRun /\ args_run_id1 = NoRun)
          \/ ~base_path_ok
          \/ concurrency_runs = 0
       THEN cpc' = "exited" /\ consec_exit' = 1 /\ level' = level
       ELSE cpc' = "loop" /\ consec_exit' = consec_exit /\ level' = 1
    /\ UNCHANGED <<args_run_id1, args_run_id2, base_path_ok, concurrency_runs, listed,
                   previous_stats, latest_stats, comparisons, run_id1_actual,
                   run_id2_actual, report>>
    /\ UNCHANGED notConsec

\* one iteration of the loop over the concurrency levels
ConsecLevel ==
    /\ cpc = "loop"
    /\ level <= concurrency_runs
    /\ \E listing \in Listings, p \in Statistics, l \in Statistics :
        LET two == find_two_latest_runs(listing, args_run_id1, args_run_id2)
            comparison == compare_runs(p, l, level)
        IN  IF two.latest_file = NoRun \/ two.previous_file = NoRun
            THEN /\ p = NoStatistics
                 /\ l = NoStatistics
                 /\ listed' = [listed EXCEPT ![level] =
                                 IF listing = <<>> THEN "failed" ELSE "no two runs"]
                 /\ level' = level + 1
                 /\ UNCHANGED <<previous_stats, latest_stats, comparisons, run_id1_actual,
                                run_id2_actual, cpc, consec_exit>>
            ELSE /\ listed' = [listed EXCEPT ![level] = "found"]
                 /\ IF run_id1_actual = NoRun
                    THEN /\ run_id1_actual' = two.previous_run_id
                         /\ run_id2_actual' = two.latest_run_id
                    ELSE UNCHANGED <<run_id1_actual, run_id2_actual>>
                 /\ previous_stats' = [previous_stats EXCEPT ![level] = p]
                 /\ latest_stats' = [latest_stats EXCEPT ![level] = l]
                 /\ IF LoadFailed(p, l)
                    THEN /\ level' = level + 1
                         /\ UNCHANGED <<comparisons, cpc, consec_exit>>
                    ELSE /\ comparisons' = Append(comparisons, comparison)
                         /\ IF comparison.has_avg
                            THEN /\ level' = level + 1
                                 /\ UNCHANGED <<cpc, consec_exit>>
                            \* line 574: comparison['previous']['avg'] raises KeyError
                            ELSE /\ cpc' = "exited"
                                 /\ consec_exit' = 1
                                 /\ level' = level
    /\ UNCHANGED <<args_run_id1, args_run_id2, base_path_ok, concurrency_runs, report>>
    /\ UNCHANGED notConsec

\* after the loop: exit 1 without comparisons, else the report
ConsecFinish ==
    /\ cpc = "loop"
    /\ level > concurrency_runs
    /\ cpc' = "exited"
    /\ IF comparisons = <<>>
       THEN consec_exit' = 1 /\ report' = report
       ELSE consec_exit' = 0 /\ report' = generate_markdown_report(comparisons)
    /\ UNCHANGED <<args_run_id1, args_run_id2, base_path_ok, concurrency_runs, level,
                   listed, previous_stats, latest_stats, comparisons, run_id1_actual,
                   run_id2_actual>>
    /\ UNCHANGED notConsec

ConsecNext ==
    \/ ConsecStart
    \/ ConsecLevel
    \/ ConsecFinish

(***************************************************************************)
(* utilities/test_queries_http.py                                          *)
(***************************************************************************)
\* greatest number of rows in the query CSV
MaxQueries == 3

Aliases == {"Q1", "Q2"}

\* authenticate returns None
NoToken == "None"

\* what the authentication request can do
AuthOutcomes == {"200 sessionId", "200 no sessionId", "401", "exception"}

\* authenticate: the sessionId of a 200 response, else None
authenticate(outcome) == IF outcome = "200 sessionId" THEN "sessionId" ELSE NoToken

\* what a POST to /api/v1/execute can do: a response with its status code
\* and a body that parses as JSON or not, a timeout, any other exception;
\* status 0 stands for no response
Responses ==
    {[status |-> st, json |-> js, raised |-> "none"] : st \in {200, 500}, js \in BOOLEAN}
    \cup {[status |-> 0, json |-> FALSE, raised |-> e] : e \in {"Timeout", "ConnectionError"}}

\* execute_query with a success flag set for every response received
execute_query_any_response(alias, resp) ==
    [alias |-> alias, status_code |-> resp.status, success |-> resp.raised = "none"]

\* execute_query: response.json() of a 200 raises inside the try when the body
\* is not JSON, and the except branch returns status_code 0 (elapsed_ms,
\* query_length and the bodies are left out)
execute_query(alias, resp) ==
    IF resp.raised # "none" THEN [alias |-> alias, status_code |-> 0, success |-> FALSE]
    ELSE IF resp.status = 200 /\ ~resp.json
    THEN [alias |-> alias, status_code |-> 0, success |-> FALSE]
    ELSE [alias |-> alias, status_code |-> resp.status, success |-> resp.status = 200]

\* success_count
SuccessCount(res) == Cardinality({k \in 1..Len(res) : res[k].success})

\* success_rate == 100, with success_rate 0 for no results
SuccessRateIs100(res) == res # <<>> /\ SuccessCount(res) * 100 = 100 * Len(res)

HttpInit ==
    /\ hpc = "start"
    /\ props_ok \in BOOLEAN
    /\ auth \in AuthOutcomes
    /\ csv_ok \in BOOLEAN
    /\ csv_rows \in UNION {[1..n -> Aliases] : n \in 0..MaxQueries}
    /\ token = NoToken
    /\ queries = <<>>
    /\ sent = <<>>
    /\ http_results = <<>>
    /\ results_saved = FALSE
    /\ http_exit = 0

HttpIdle ==
    /\ hpc = "idle"
    /\ props_ok = FALSE
    /\ auth = "exception"
    /\ csv_ok = FALSE
    /\ csv_rows = <<>>
    /\ token = NoToken
    /\ queries = <<>>
    /\ sent = <<>>
    /\ http_results = <<>>
    /\ results_saved = FALSE
    /\ http_exit = 0

\* main up to the loop: properties, authentication, the CSV
HttpStart ==
    /\ hpc = "start"
    /\ IF ~props_ok
       THEN hpc' = "exited" /\ http_exit' = 1 /\ UNCHANGED <<token, queries>>
       ELSE /\ token' = authenticate(auth)
            /\ IF token' = NoToken
               THEN hpc' = "exited" /\ http_exit' = 1 /\ UNCHANGED queries
               ELSE IF ~csv_ok
               THEN hpc' = "exited" /\ http_exit' = 1 /\ UNCHANGED queries
               ELSE hpc' = "loop" /\ http_exit' = http_exit /\ queries' = csv_rows
    /\ UNCHANGED <<props_ok, auth, csv_ok, csv_rows, sent, http_results, results_saved>>
    /\ UNCHANGED notHttp

\* one iteration of the loop over queries
HttpExecute ==
    /\ hpc = "loop"
    /\ Len(http_results) < Len(queries)
    /\ \E resp \in Responses :
        LET alias == queries[Len(http_results) + 1]
        IN  /\ sent' = Append(sent, [alias |-> alias, status |-> resp.status,
                                     json |-> resp.json])
            /\ http_results' = Append(http_results, execute_query(alias, resp))
    /\ UNCHANGED <<hpc, props_ok, auth, csv_ok, csv_rows, token, queries, results_saved,
                   http_exit>>
    /\ UNCHANGED notHttp

\* the summary, the results file (a failure to write it is caught), the exit status
HttpSummary ==
    /\ hpc = "loop"
    /\ Len(http_results) = Len(queries)
    /\ results_saved' \in BOOLEAN
    /\ hpc' = "exited"
    /\ http_exit' = IF SuccessRateIs100(http_results) THEN 0 ELSE 1
    /\ UNCHANGED <<props_ok, auth, csv_ok, csv_rows, token, queries, sent, http_results>>
    /\ UNCHANGED notHttp

HttpNext ==
    \/ HttpStart
    \/ HttpExecute
    \/ HttpSummary

(***************************************************************************)
(* utilities/jmeter_s3_utils.py: calculate_percentage_diff                 *)
(***************************************************************************)
\* greatest magnitude of the values compared
MaxValue == 5

Values == (0 - MaxValue)..MaxValue

\* 0.0
ZeroFraction == [num |-> 0, den |-> 1]

\* calculate_percentage_diff with the operands of the subtraction exchanged
calculate_percentage_diff_of_val1(v1, v2) ==
    IF v2 = 0 THEN ZeroFraction
    ELSE [num |-> (v1 - v2) * 100, den |-> v2]

\* ((val2 - val1) / val2) * 100.0, kept as the fraction num / den
calculate_percentage_diff(v1, v2) ==
    IF v2 = 0 THEN ZeroFraction
    ELSE [num |-> (v2 - v1) * 100, den |-> v2]

DiffInit ==
    /\ dpc = "call"
    /\ val1 \in Values
    /\ val2 \in Values
    /\ diff = ZeroFraction

DiffIdle ==
    /\ dpc = "idle"
    /\ val1 = 0
    /\ val2 = 0
    /\ diff = ZeroFraction

DiffCall ==
    /\ dpc = "call"
    /\ diff' = calculate_percentage_diff(val1, val2)
    /\ dpc' = "returned"
    /\ UNCHANGED <<val1, val2>>
    /\ UNCHANGED notDiff

DiffNext == DiffCall

(***************************************************************************)
(* utilities/jmeter_s3_utils.py: normalize_query_name, create_query_mapping*)
(***************************************************************************)
\* greatest query number in a query name
MaxQueryNumber == 2

\* greatest number of keys in a statistics dictionary
MaxKeys == 2

\* the digits of a query number
Digits(n) == <<"digits", n>>

\* A query name is the sequence of its parts between '-', as split('-') gives them.
Total == <<"Total">>

\* TPCDS-n, query-n-TPCDS-n, a name that ends in TPCDS, a name of another benchmark
QueryNames ==
    {<<"TPCDS", Digits(n)>> : n \in 1..MaxQueryNumber}
    \cup {<<"query", Digits(n), "TPCDS", Digits(n)>> : n \in 1..MaxQueryNumber}
    \cup {<<"query", Digits(1), "TPCDS">>, <<"Q1">>}

SourceEngines == {"e6data", "databricks"}

\* the key sets of a statistics dictionary
StatisticsKeys == {K \in SUBSET (QueryNames \cup {Total}) : Cardinality(K) <= MaxKeys}

\* None in a mapping entry
NoName == <<>>

\* query_name.startswith(prefix + '-')
StartsWith(query_name, prefix) == Len(query_name) >= 2 /\ query_name[1] = prefix

normalize_query_name(query_name, source_engine) ==
    IF StartsWith(query_name, "TPCDS") THEN query_name
    ELSE IF source_engine = "e6data" /\ StartsWith(query_name, "query")
    THEN LET found_at == {i \in 1..Len(query_name) :
                            query_name[i] = "TPCDS" /\ i + 1 <= Len(query_name)}
         IN  IF found_at = {} THEN query_name
             ELSE LET i == CHOOSE x \in found_at : \A y \in found_at : x <= y
                  IN  <<"TPCDS", query_name[i + 1]>>
    ELSE query_name

\* the orders in which a set can be iterated
Orders(S) == {s \in [1..Cardinality(S) -> S] : \A x \in S : \E k \in DOMAIN s : s[k] = x}

\* the two loops of create_query_mapping: side 1 for stats1, side 2 for stats2
RECURSIVE MapSide(_, _, _, _)
MapSide(map, names, engine, side) ==
    IF names = <<>> THEN map
    ELSE LET q == Head(names)
             normalized == normalize_query_name(q, engine)
             entry == IF normalized \in DOMAIN map THEN map[normalized]
                      ELSE <<NoName, NoName>>
             added == [n \in DOMAIN map \cup {normalized} |->
                          IF n = normalized THEN [entry EXCEPT ![side] = q] ELSE map[n]]
         IN  MapSide(added, Tail(names), engine, side)

\* a filter that keeps the entries with at least one side
AnySide(v) == v[1] # NoName \/ v[2] # NoName

\* all(v)
AllSides(v) == v[1] # NoName /\ v[2] # NoName

\* create_query_mapping, the sets queries1 and queries2 iterated in the given orders
create_query_mapping(order1, order2, e1, e2) ==
    LET both == MapSide(MapSide(<<>>, order1, e1, 1), order2, e2, 2)
    IN  [k \in {n \in DOMAIN both : AllSides(both[n])} |-> both[k]]

MappingInit ==
    /\ mpc = "call"
    /\ stats1 \in StatisticsKeys
    /\ stats2 \in StatisticsKeys
    /\ engine1 \in SourceEngines
    /\ engine2 \in SourceEngines
    /\ mapping = <<>>

MappingIdle ==
    /\ mpc = "idle"
    /\ stats1 = {}
    /\ stats2 = {}
    /\ engine1 = "e6data"
    /\ engine2 = "e6data"
    /\ mapping = <<>>

MappingCall ==
    /\ mpc = "call"
    /\ \E order1 \in Orders(stats1 \ {Total}), order2 \in Orders(stats2 \ {Total}) :
          mapping' = create_query_mapping(order1, order2, engine1, engine2)
    /\ mpc' = "returned"
    /\ UNCHANGED <<stats1, stats2, engine1, engine2>>
    /\ UNCHANGED notMapping

MappingNext == MappingCall

(***************************************************************************)
(* utilities/get_dbr_query_history.py                                      *)
(***************************************************************************)
\* greatest value of --hours
MaxHours == 2

\* the default number of hours
DefaultHours == 6

\* None for --hours and for the variable hours (the values given are 0..MaxHours)
NoHours == 0 - 1

\* None for a time
NoTime == "None"

\* not hours: None or 0
NotHours(h) == h = NoHours \/ h = 0

\* args.hours or 6
HoursOr6(h) == IF NotHours(h) THEN DefaultHours ELSE h

\* no request sent
NoRange == [start |-> NoTime, end |-> NoTime, last_hours |-> 0]

\* parse_test_result_json: both times of the file, or (None, None)
parse_test_result_json(file) ==
    IF file = "parses" THEN <<"test_start_time", "test_end_time">> ELSE <<NoTime, NoTime>>

\* a get_query_history that always asks for the default number of hours
get_query_history_default(st, en, h) ==
    IF st # NoTime /\ en # NoTime THEN [start |-> st, end |-> en, last_hours |-> 0]
    ELSE [start |-> "now - hours", end |-> "now", last_hours |-> DefaultHours]

\* get_query_history: the time range of the request
get_query_history(st, en, h) ==
    IF st # NoTime /\ en # NoTime THEN [start |-> st, end |-> en, last_hours |-> 0]
    ELSE IF ~NotHours(h) THEN [start |-> "now - hours", end |-> "now", last_hours |-> h]
    ELSE [start |-> "now - hours", end |-> "now", last_hours |-> DefaultHours]

DbrInit ==
    /\ qpc = "start"
    /\ conn_ok \in BOOLEAN
    /\ args_test_result \in {"absent", "parses", "unparseable"}
    /\ args_start_time \in {"absent", "valid", "invalid"}
    /\ args_end_time \in {"absent", "valid", "invalid"}
    /\ args_hours \in {NoHours} \cup 0..MaxHours
    /\ start_time = NoTime
    /\ end_time = NoTime
    /\ hours = NoHours
    /\ time_range = NoRange
    /\ requests_sent = 0
    /\ exported = FALSE
    /\ dbr_exit = 0

DbrIdle ==
    /\ qpc = "idle"
    /\ conn_ok = FALSE
    /\ args_test_result = "absent"
    /\ args_start_time = "absent"
    /\ args_end_time = "absent"
    /\ args_hours = NoHours
    /\ start_time = NoTime
    /\ end_time = NoTime
    /\ hours = NoHours
    /\ time_range = NoRange
    /\ requests_sent = 0
    /\ exported = FALSE
    /\ dbr_exit = 0

\* main: connection string, host, warehouse id, token
DbrConnection ==
    /\ qpc = "start"
    /\ IF conn_ok
       THEN qpc' = "range" /\ dbr_exit' = dbr_exit
       ELSE qpc' = "exited" /\ dbr_exit' = 1
    /\ UNCHANGED <<conn_ok, args_test_result, args_start_time, args_end_time, args_hours,
                   start_time, end_time, hours, time_range, requests_sent, exported>>
    /\ UNCHANGED notDbr

\* main: "Determine time range for query history"
DbrTimeRange ==
    /\ qpc = "range"
    /\ IF args_test_result # "absent"
       THEN LET times == parse_test_result_json(args_test_result)
            IN  /\ start_time' = times[1]
                /\ end_time' = times[2]
                /\ hours' = IF times[1] = NoTime \/ times[2] = NoTime
                            THEN HoursOr6(args_hours) ELSE hours
                /\ qpc' = "fetch"
                /\ dbr_exit' = dbr_exit
       ELSE IF args_start_time # "absent" /\ args_end_time # "absent"
       THEN IF args_start_time = "valid" /\ args_end_time = "valid"
            THEN /\ start_time' = "--start-time"
                 /\ end_time' = "--end-time"
                 /\ qpc' = "fetch"
                 /\ UNCHANGED <<hours, dbr_exit>>
            ELSE /\ qpc' = "exited"
                 /\ dbr_exit' = 1
                 /\ start_time' = IF args_start_time = "valid" THEN "--start-time" ELSE NoTime
                 /\ UNCHANGED <<end_time, hours>>
       ELSE IF args_start_time # "absent" \/ args_end_time # "absent"
       THEN /\ qpc' = "exited"
            /\ dbr_exit' = 1
            /\ UNCHANGED <<start_time, end_time, hours>>
       ELSE /\ hours' = HoursOr6(args_hours)
            /\ qpc' = "fetch"
            /\ UNCHANGED <<start_time, end_time, dbr_exit>>
    /\ UNCHANGED <<conn_ok, args_test_result, args_start_time, args_end_time, args_hours,
                   time_range, requests_sent, exported>>
    /\ UNCHANGED notDbr

\* main: get_query_history, then the export
DbrFetch ==
    /\ qpc = "fetch"
    /\ time_range' = get_query_history(start_time, end_time, hours)
    /\ requests_sent' = requests_sent + 1
    /\ qpc' = "exited"
    /\ \E response \in {"RequestException", "no queries", "queries"} :
          /\ dbr_exit' = IF response = "RequestException" THEN 1 ELSE 0
          /\ exported' = (response = "queries")
    /\ UNCHANGED <<conn_ok, args_test_result, args_start_time, args_end_time, args_hours,
                   start_time, end_time, hours>>
    /\ UNCHANGED notDbr

DbrNext ==
    \/ DbrConnection
    \/ DbrTimeRange
    \/ DbrFetch

(***************************************************************************)
(* utilities/athena/upload_runs_index_to_athena.py                         *)
(***************************************************************************)
\* the NamedTemporaryFile of generate_and_upload_from_s3 and that of upload_to_s3
IndexJson == "tmp.json"

DataJsonl == "tmp.jsonl"

UploadInit ==
    /\ upc = "start"
    /\ upl_mode \in {"from_s3", "index_file", "none"}
    /\ upl_dry_run \in BOOLEAN
    /\ index_found \in BOOLEAN
    /\ index_runs \in SUBSET RunIds
    /\ temp_files = {}
    /\ temp_created = {}
    /\ cp_runs = 0
    /\ s3_data = {}
    /\ upload_exit = 0

UploadIdle ==
    /\ upc = "idle"
    /\ upl_mode = "none"
    /\ upl_dry_run = FALSE
    /\ index_found = FALSE
    /\ index_runs = {}
    /\ temp_files = {}
    /\ temp_created = {}
    /\ cp_runs = 0
    /\ s3_data = {}
    /\ upload_exit = 0

\* main, and generate_and_upload_from_s3 up to its call of upload_to_s3
UploadMain ==
    /\ upc = "start"
    /\ IF upl_mode = "none" \/ ~index_found
       THEN /\ upc' = "exited"
            /\ upload_exit' = 1
            /\ UNCHANGED <<temp_files, temp_created>>
       ELSE /\ upc' = "upload_to_s3"
            /\ upload_exit' = upload_exit
            /\ IF upl_mode = "from_s3"
               THEN /\ temp_files' = temp_files \cup {IndexJson}
                    /\ temp_created' = temp_created \cup {IndexJson}
               ELSE UNCHANGED <<temp_files, temp_created>>
    /\ UNCHANGED <<upl_mode, upl_dry_run, index_found, index_runs, cp_runs, s3_data>>
    /\ UNCHANGED notUpload

\* upload_to_s3 up to the upload: no runs, the dry run, the temporary file
UploadToS3 ==
    /\ upc = "upload_to_s3"
    /\ IF index_runs = {} \/ upl_dry_run
       THEN /\ upc' = "returned"
            /\ UNCHANGED <<temp_files, temp_created>>
       ELSE /\ upc' = "cp"
            /\ temp_files' = temp_files \cup {DataJsonl}
            /\ temp_created' = temp_created \cup {DataJsonl}
    /\ UNCHANGED <<upl_mode, upl_dry_run, index_found, index_runs, cp_runs, s3_data,
                   upload_exit>>
    /\ UNCHANGED notUpload

\* upload_to_s3: 'aws s3 cp' in try / except CalledProcessError / finally
UploadCp ==
    /\ upc = "cp"
    /\ cp_runs' = cp_runs + 1
    /\ temp_files' = temp_files \ {DataJsonl}
    /\ \E outcome \in {"uploaded", "CalledProcessError"} :
          IF outcome = "uploaded"
          THEN /\ s3_data' = index_runs
               /\ upc' = "returned"
               /\ upload_exit' = upload_exit
          ELSE /\ s3_data' = s3_data
               /\ upc' = "exited"
               /\ upload_exit' = 1
    /\ UNCHANGED <<upl_mode, upl_dry_run, index_found, index_runs, temp_created>>
    /\ UNCHANGED notUpload

\* after upload_to_s3 returned: the cleanup of generate_and_upload_from_s3, the end of main
UploadReturn ==
    /\ upc = "returned"
    /\ temp_files' = IF upl_mode = "from_s3" THEN temp_files \ {IndexJson} ELSE temp_files
    /\ upc' = "exited"
    /\ upload_exit' = 0
    /\ UNCHANGED <<upl_mode, upl_dry_run, index_found, index_runs, temp_created, cp_runs,
                   s3_data>>
    /\ UNCHANGED notUpload

UploadNext ==
    \/ UploadMain
    \/ UploadToS3
    \/ UploadCp
    \/ UploadReturn

(***************************************************************************)
(* The specifications: one script runs, the others stay idle.              *)
(***************************************************************************)
vars == <<benchVars, syncVars, athenaVars, findVars, consecVars, httpVars, diffVars, mappingVars, dbrVars, uploadVars>>

InitBench == BenchInit /\ SyncIdle /\ AthenaIdle /\ FindIdle /\ ConsecIdle /\ HttpIdle /\ DiffIdle /\ MappingIdle /\ DbrIdle /\ UploadIdle

SpecBench == InitBench /\ [][BenchNext]_vars

InitSync == SyncInit /\ BenchIdle /\ AthenaIdle /\ FindIdle /\ ConsecIdle /\ HttpIdle /\ DiffIdle /\ MappingIdle /\ DbrIdle /\ UploadIdle

SpecSync == InitSync /\ [][SyncNext]_vars

InitAthena == AthenaInit /\ BenchIdle /\ SyncIdle /\ FindIdle /\ ConsecIdle /\ HttpIdle /\ DiffIdle /\ MappingIdle /\ DbrIdle /\ UploadIdle

SpecAthena == InitAthena /\ [][AthenaNext]_vars

InitFind == FindInit /\ BenchIdle /\ SyncIdle /\ AthenaIdle /\ ConsecIdle /\ HttpIdle /\ DiffIdle /\ MappingIdle /\ DbrIdle /\ UploadIdle

SpecFind == InitFind /\ [][FindNext]_vars

InitConsecutive == ConsecInit /\ BenchIdle /\ SyncIdle /\ AthenaIdle /\ FindIdle /\ HttpIdle /\ DiffIdle /\ MappingIdle /\ DbrIdle /\ UploadIdle

SpecConsecutive == InitConsecutive /\ [][ConsecNext]_vars

InitHttp == HttpInit /\ BenchIdle /\ SyncIdle /\ AthenaIdle /\ FindIdle /\ ConsecIdle /\ DiffIdle /\ MappingIdle /\ DbrIdle /\ UploadIdle

SpecHttp == InitHttp /\ [][HttpNext]_vars

InitDiff == DiffInit /\ BenchIdle /\ SyncIdle /\ AthenaIdle /\ FindIdle /\ ConsecIdle /\ HttpIdle /\ MappingIdle /\ DbrIdle /\ UploadIdle

SpecDiff == InitDiff /\ [][DiffNext]_vars

InitMapping == MappingInit /\ BenchIdle /\ SyncIdle /\ AthenaIdle /\ FindIdle /\ ConsecIdle /\ HttpIdle /\ DiffIdle /\ DbrIdle /\ UploadIdle

SpecMapping == InitMapping /\ [][MappingNext]_vars

InitDbr == DbrInit /\ BenchIdle /\ SyncIdle /\ AthenaIdle /\ FindIdle /\ ConsecIdle /\ HttpIdle /\ DiffIdle /\ MappingIdle /\ UploadIdle

SpecDbr == InitDbr /\ [][DbrNext]_vars

InitUpload == UploadInit /\ BenchIdle /\ SyncIdle /\ AthenaIdle /\ FindIdle /\ ConsecIdle /\ HttpIdle /\ DiffIdle /\ MappingIdle /\ DbrIdle

SpecUpload == InitUpload /\ [][UploadNext]_vars

(***************************************************************************)
(* Claims about the benchmark runners.                                     *)
(***************************************************************************)
Ended == bpc \in {"finish", "done", "QueryException"}

\* C1: a query whose execution or fetch raises is executed once and not
\* retried; its status is the record with query_status 'Failure', query_id
\* None, row_count 0, execution_time 0 and err_msg set; the exception does not
\* end the run: a run that ends has executed every row exactly once, and a run
\* is only ever cut short by a connection that could not be opened.
C1_QueryFailureIsARecord ==
    /\ \A r \in 1..all_rows :
          /\ executions[r] <= 1
          /\ engine_did[r] = "query_raises" =>
                /\ executions[r] = 1
                /\ task[r] = "returned"
                /\ output[r].query_status = "Failure"
                /\ output[r].query_id = None
                /\ output[r].row_count = 0
                /\ output[r].execution_time = 0
                /\ output[r].err_msg # None
    /\ Ended => \A r \in 1..all_rows : executions[r] = 1
    /\ bpc = "crashed" => \E r \in 1..all_rows : engine_did[r] = "connect_raises"

\* a run that ended although its first query raised, having executed a later one
C1_Witness ==
    /\ bpc \in {"done", "QueryException"}
    /\ all_rows >= 2
    /\ engine_did[1] = "query_raises"
    /\ output[1].query_status = "Failure"
    /\ executions[all_rows] = 1

\* C2: every failure in serving a row, a connection that cannot be opened
\* included, becomes a 'Failure' record of that row: no exception escapes the
\* query method and the run is not cut short.
C2_NoExceptionEscapes ==
    /\ bpc # "crashed"
    /\ \A r \in 1..all_rows :
          /\ task[r] # "raised"
          /\ engine_did[r] = "connect_raises" => output[r].query_status = "Failure"

\* C3: at the end of a run, QueryException is raised if and only if some
\* query of the run ended with query_status 'Failure', in both querying modes.
C3_RaisesIffSomeQueryFailed ==
    bpc \in {"done", "QueryException"} =>
        (bpc = "QueryException"
            <=> \E r \in 1..all_rows : output[r].query_status = "Failure")

\* C4 as claimed: in CONCURRENT mode at most CONCURRENT_QUERY_COUNT queries
\* are being executed at any moment.
C4_AtMostConcurrentQueryCount ==
    QUERYING_MODE = "CONCURRENT" => Cardinality(Running) <= CONCURRENT_QUERY_COUNT

\* C4 as amended: in CONCURRENT mode each batch has at most
\* CONCURRENT_QUERY_COUNT queries being executed, and all batches together at
\* most CONCURRENT_QUERY_COUNT times the number of batches dispatched so far.
C4_AtMostConcurrentQueryCountPerBatch ==
    QUERYING_MODE = "CONCURRENT" =>
        /\ \A b \in 1..Len(pool_pool) :
              Cardinality(RunningIn(pool_pool[b])) <= CONCURRENT_QUERY_COUNT
        /\ Cardinality(Running) <= CONCURRENT_QUERY_COUNT * Len(pool_pool)

\* queries of two batches run at once, one batch being full
C4_Witness ==
    /\ QUERYING_MODE = "CONCURRENT"
    /\ Cardinality(Running) > CONCURRENT_QUERY_COUNT
    /\ \E b \in 1..Len(pool_pool) :
          Cardinality(RunningIn(pool_pool[b])) = CONCURRENT_QUERY_COUNT

(***************************************************************************)
(* Claims about sync_s3_to_athena.                                         *)
(***************************************************************************)
\* C5: without --force, whatever the outcome of the Athena lookup query, a run
\* whose run_id is already in the Athena index never triggers an upload.
C5_UploadsOnlyMissingRuns ==
    ~args_force => \A k \in 1..Len(launched) : launched[k] \notin athena_index

C7_PollsAtMost30ThenFetches ==
    /\ attempt <= 30
    /\ (fetched > 0 \/ apc \in {"fetch", "returned"}) => query_state = "SUCCEEDED"
    /\ query_state \in {"FAILED", "CANCELLED"} =>
          apc = "exited" /\ aq_exit = 1 /\ fetched = 0 /\ results = <<>>
    /\ (attempt = 30 /\ query_state # "SUCCEEDED") =>
          apc = "exited" /\ aq_exit = 1 /\ fetched = 0 /\ results = <<>>
    /\ apc = "poll" => (attempt < 30 /\ query_state \in {None, "RUNNING"})

\* the 30th poll found the query still running: timeout, nothing fetched
C7_Witness ==
    /\ attempt = 30
    /\ query_state = "RUNNING"
    /\ apc = "exited"
    /\ aq_exit = 1
    /\ fetched = 0

\* C8: with --run1 A --run2 B, A and B distinct and both in the index, the
\* column labelled 'Run 1 (A)' shows the run whose run_id is A and the column
\* labelled 'Run 2 (B)' the run whose run_id is B, whichever is the greater.
C8_ColumnsShowTheLabelledRuns ==
    (aq_script = "compare_runs_athena" /\ apc = "exited" /\ query_state = "SUCCEEDED"
        /\ args_run1 # args_run2 /\ {args_run1, args_run2} \subseteq aq_index) =>
        /\ aq_exit = 0
        /\ column1.label = args_run1 /\ column1.run_id = args_run1
        /\ column1.avg_latency_sec = MetricOf(args_run1)
        /\ column2.label = args_run2 /\ column2.run_id = args_run2
        /\ column2.avg_latency_sec = MetricOf(args_run2)

(***************************************************************************)
(* Claims about compare_consecutive_runs_from_s3.                          *)
(***************************************************************************)
\* the distinct valid run_ids of the listing
ListedRunIds == {files[k] : k \in 1..Len(files)} \cap RunIds

IsGreatest(r, S) == r \in S /\ \A x \in S : x <= r

\* C10: without explicit run IDs find_two_latest_runs returns the two greatest
\* distinct run_ids of the listing, previous_run_id strictly smaller than
\* latest_run_id, and (None, None, None, None) when fewer than two distinct
\* valid run_ids are listed; with explicit run_id1 and run_id2 it returns
\* exactly those two, and only if both occur in the listing.
C10_TwoLatestRuns ==
    fpc = "returned" =>
        IF run_id1 # NoRun /\ run_id2 # NoRun
        THEN IF {run_id1, run_id2} \subseteq ListedRunIds
             THEN /\ found.previous_run_id = run_id1
                  /\ found.latest_run_id = run_id2
                  /\ found.previous_file = StatisticsFile(run_id1)
                  /\ found.latest_file = StatisticsFile(run_id2)
             ELSE found = NotFound
        ELSE IF Cardinality(ListedRunIds) < 2
             THEN found = NotFound
             ELSE /\ IsGreatest(found.latest_run_id, ListedRunIds)
                  /\ IsGreatest(found.previous_run_id,
                                ListedRunIds \ {found.latest_run_id})
                  /\ found.previous_run_id < found.latest_run_id
                  /\ found.previous_file = StatisticsFile(found.previous_run_id)
                  /\ found.latest_file = StatisticsFile(found.latest_run_id)

\* runs listed oldest first among repeated or invalid keys: the two latest are found
C10_Witness ==
    /\ fpc = "returned"
    /\ run_id1 = NoRun
    /\ Cardinality(ListedRunIds) >= 2
    /\ Len(files) > Cardinality(ListedRunIds)
    /\ files[1] < files[Len(files)]
    /\ found.latest_run_id = MaxRunId
    /\ found.previous_run_id # NoRun

\* the concurrency levels that appear in the comparisons
ComparedLevels == {comparisons[k].concurrency : k \in 1..Len(comparisons)}

\* the run listing of level c gave two runs and both statistics were downloaded
ListedAndLoaded(c) ==
    listed[c] = "found" /\ previous_stats[c].loaded /\ latest_stats[c].loaded

\* level c could be compared: two runs, both statistics, each with its 'Total'
CouldBeCompared(c) ==
    /\ ListedAndLoaded(c)
    /\ previous_stats[c].Total # NoTotal
    /\ latest_stats[c].Total # NoTotal

\* C9: a concurrency level whose run listing or statistics download fails is
\* skipped and never appears in the comparisons, the levels after it are
\* still compared, and the script exits with status 1 only when no level at
\* all could be compared.
C9_FailedLevelsAreSkipped ==
    /\ \A c \in ComparedLevels : ListedAndLoaded(c)
    /\ \A c \in 1..concurrency_runs :
          c < level /\ ListedAndLoaded(c) => c \in ComparedLevels
    /\ cpc = "exited" /\ consec_exit = 1 =>
          \A c \in 1..concurrency_runs : ~CouldBeCompared(c)

(***************************************************************************)
(* Claims about test_queries_http.                                         *)
(***************************************************************************)
\* the aliases of the queries sent so far, in the order sent
SentAliases == [k \in 1..Len(sent) |-> sent[k].alias]

\* main got as far as its summary
HttpSummarised == hpc = "exited" /\ token # NoToken /\ csv_ok

\* no query is sent without a session id, and the queries sent are the rows
\* of the CSV in file order, each once, all of them by the time of the summary
HttpEveryQueryOnce ==
    /\ sent # <<>> => auth = "200 sessionId" /\ token = "sessionId"
    /\ Len(sent) <= Len(csv_rows)
    /\ SentAliases = SubSeq(csv_rows, 1, Len(sent))
    /\ Len(http_results) = Len(sent)
    /\ HttpSummarised => SentAliases = csv_rows

SignOf(f) ==
    IF f.num = 0 THEN 0
    ELSE IF (f.num > 0) = (f.den > 0) THEN 1
    ELSE 0 - 1

\* C12: calculate_percentage_diff(val1, val2) returns 0 when val2 is 0; for
\* val2 > 0 the result is positive exactly when val1 < val2, negative
\* exactly when val1 > val2, and zero exactly when val1 = val2.
C12_SignOfPercentageDiff ==
    dpc = "returned" =>
        /\ val2 = 0 => diff = ZeroFraction
        /\ val2 > 0 =>
              /\ SignOf(diff) = 1 <=> val1 < val2
              /\ SignOf(diff) = 0 - 1 <=> val1 > val2
              /\ SignOf(diff) = 0 <=> val1 = val2

\* val1 the faster of two positive values: a positive difference
C12_Witness ==
    /\ dpc = "returned"
    /\ 0 < val1
    /\ val1 < val2
    /\ SignOf(diff) = 1

\* the names the non-'Total' keys of a statistics dictionary normalize to
NormalizedNames(stats, engine) ==
    {normalize_query_name(q, engine) : q \in stats \ {Total}}

TestResultRange == [start |-> "test_start_time", end |-> "test_end_time", last_hours |-> 0]

StartEndRange == [start |-> "--start-time", end |-> "--end-time", last_hours |-> 0]

LastHoursRange(h) == [start |-> "now - hours", end |-> "now", last_hours |-> h]

\* the connection properties were good and the time range has been dealt with
DbrPastTimeRange == qpc = "exited" /\ conn_ok

BothTimesGiven == args_start_time # "absent" /\ args_end_time # "absent"

OneTimeGiven == (args_start_time # "absent") # (args_end_time # "absent")

C15_DryRunAndTemporaryFiles ==
    /\ upl_dry_run => cp_runs = 0 /\ s3_data = {}
    /\ upc = "exited" => temp_files = {}

====
